---- MODULE Spec2Model ----
(***************************************************************************)
(* A model of the todo-list application of src/script.js: the model        *)
(* object (the list of items), the controller's event handlers and the     *)
(* view's rendering into the DOM.                                          *)
(*                                                                         *)
(* JavaScript strings are sequences of tokens.  A token is one of the      *)
(* markup characters "<" and ">", a decimal digit, "-", or a run of text   *)
(* that begins with an ASCII letter and holds no markup character.         *)
(* JavaScript array positions are 0-based; items[i] of the program is      *)
(* items[i + 1] here.                                                      *)
(***************************************************************************)
EXTENDS Integers, Sequences, FiniteSets, TLC

VARIABLES
    items,               \* model.items
    ul,                  \* the <li> children of the <ul>, in DOM order
    toggleAllHidden,     \* "hide" is in #toggle-all-items-button's classList
    createInput,         \* value of #create-item-input
    createButtonHidden,  \* "hide" is in #create-item-button's classList
    focused,             \* id of the <li> whose update input has focus
    lastOp,              \* the operation that ran last, with its arguments
    before               \* model.items when that operation began

vars == <<items, ul, toggleAllHidden, createInput, createButtonHidden,
          focused, lastOp, before>>

dom == <<ul, toggleAllHidden, createInput, createButtonHidden, focused>>

(***************************************************************************)
(* Bounds                                                                  *)
(***************************************************************************)
MaxItems == 2

(***************************************************************************)
(* JavaScript values                                                       *)
(***************************************************************************)
Undefined == [t |-> "undefined"]

JSNum(n) == [t |-> "number", v |-> n]

JSStr(s) == [t |-> "string", v |-> s]

JSBool(b) == [t |-> "boolean", v |-> b]

\* a === b, for the primitive values above
StrictEquals(a, b) == a.t = b.t /\ (a.t = "undefined" \/ a.v = b.v)

ENTER_KEY == 13

ESC_KEY == 27

DigitChars == <<"0", "1", "2", "3", "4", "5", "6", "7", "8", "9">>

RECURSIVE NatToString(_)
\* Number::toString for a natural number
NatToString(n) ==
    IF n < 10 THEN <<DigitChars[n + 1]>>
    ELSE NatToString(n \div 10) \o <<DigitChars[(n % 10) + 1]>>

\* `${i}` and ToPropertyKey of an integer
NumberToString(n) ==
    IF n < 0 THEN <<"-">> \o NatToString(0 - n) ELSE NatToString(n)

IsDigit(c) == \E d \in 1..10 : DigitChars[d] = c

DigitValue(c) == (CHOOSE d \in 1..10 : DigitChars[d] = c) - 1

RECURSIVE DigitsToNat(_, _)
DigitsToNat(s, acc) ==
    IF s = <<>> THEN acc
    ELSE DigitsToNat(Tail(s), acc * 10 + DigitValue(Head(s)))

AllDigits(s) == s # <<>> /\ \A k \in 1..Len(s) : IsDigit(s[k])

\* StringToNumber; NaN is Undefined here
StringToNumber(s) ==
    IF s = <<>> THEN JSNum(0)
    ELSE IF AllDigits(s) THEN JSNum(DigitsToNat(s, 0))
    ELSE IF Head(s) = "-" /\ AllDigits(Tail(s))
         THEN JSNum(0 - DigitsToNat(Tail(s), 0))
    ELSE Undefined

\* ToIntegerOrInfinity, as Array.prototype.splice applies it to its start
ToIntegerOrInfinity(x) ==
    LET n == IF x.t = "number" THEN x
             ELSE IF x.t = "string" THEN StringToNumber(x.v)
             ELSE Undefined
    IN IF n.t = "number" THEN n.v ELSE 0

\* ToPropertyKey, for the x of items[x]
ToPropertyKey(x) == IF x.t = "number" THEN NumberToString(x.v) ELSE x.v

\* a property key that is a canonical array index
IsArrayIndex(key) == AllDigits(key) /\ NatToString(DigitsToNat(key, 0)) = key

\* items[x] is an element of the array (not undefined)
HasElement(its, x) ==
    LET key == ToPropertyKey(x)
    IN IsArrayIndex(key) /\ DigitsToNat(key, 0) < Len(its)

\* the position in the sequence of the element items[x]
ElementPos(x) == DigitsToNat(ToPropertyKey(x), 0) + 1

(***************************************************************************)
(* The names the model works with                                          *)
(***************************************************************************)
\* a slip: no seed item is done
SeedItems_Undone ==
    << [name |-> <<"This item is done">>, done |-> FALSE],
       [name |-> <<"This item is not done">>, done |-> FALSE] >>

\* JSON.parse(stringifiedTodoItems)
SeedItems ==
    << [name |-> <<"This item is done">>, done |-> TRUE],
       [name |-> <<"This item is not done">>, done |-> FALSE] >>

\* what the user types into an input
TypedNames == { <<>>, <<"<", "b", ">">> }

Names == TypedNames \cup {SeedItems[k].name : k \in 1..Len(SeedItems)}

Item == [name : Names, done : BOOLEAN]

RECURSIVE ListsOfLen(_)
ListsOfLen(n) ==
    IF n = 0 THEN {<<>>}
    ELSE {Append(l, it) : l \in ListsOfLen(n - 1), it \in Item}

BoundedLists == UNION {ListsOfLen(n) : n \in 0..MaxItems}

(***************************************************************************)
(* model                                                                   *)
(***************************************************************************)
RECURSIVE CountDone_SkipFirst(_, _, _)
\* a slip: the scan misses the first item
CountDone_SkipFirst(its, k, n) ==
    IF k > Len(its) THEN n
    ELSE CountDone_SkipFirst(its, k + 1,
                             IF k > 1 /\ its[k].done THEN n + 1 ELSE n)

RECURSIVE CountDone(_, _, _)
\* the forEach of countItems
CountDone(its, k, n) ==
    IF k > Len(its) THEN n
    ELSE CountDone(its, k + 1,
                   IF StrictEquals(JSBool(its[k].done), JSBool(TRUE))
                   THEN n + 1 ELSE n)

model_countItems(its) ==
    [numItems |-> Len(its), numDoneItems |-> CountDone(its, 1, 0)]

\* a slip: the new item goes first
model_createItem_Unshift(its, name) ==
    [items |-> <<[name |-> name, done |-> FALSE]>> \o its, fault |-> FALSE]

model_createItem(its, name) ==
    [items |-> Append(its, [name |-> name, done |-> FALSE]), fault |-> FALSE]

\* a slip: the item is rebuilt as a new, undone item
model_changeItemName_Rebuilds(its, index, name) ==
    IF HasElement(its, index)
    THEN [items |-> [its EXCEPT ![ElementPos(index)] =
                                    [name |-> name, done |-> FALSE]],
          fault |-> FALSE]
    ELSE [items |-> its, fault |-> TRUE]

\* a slip: an index outside the list is ignored
model_changeItemName_Lenient(its, index, name) ==
    IF HasElement(its, index)
    THEN [items |-> [its EXCEPT ![ElementPos(index)].name = name],
          fault |-> FALSE]
    ELSE [items |-> its, fault |-> FALSE]

model_changeItemName(its, index, name) ==
    IF HasElement(its, index)
    THEN [items |-> [its EXCEPT ![ElementPos(index)].name = name],
          fault |-> FALSE]
    ELSE [items |-> its, fault |-> TRUE]

\* the actual start of splice(start, ...) on an array of length len
SpliceStart(start, len) ==
    LET rel == ToIntegerOrInfinity(start)
    IN IF rel < 0 THEN (IF len + rel > 0 THEN len + rel ELSE 0)
       ELSE (IF rel < len THEN rel ELSE len)

\* its.splice(start, deleteCount)
Splice(its, start, deleteCount) ==
    LET len == Len(its)
        from == SpliceStart(start, len)
        room == len - from
        cnt == IF deleteCount < 0 THEN 0
               ELSE IF deleteCount < room THEN deleteCount ELSE room
    IN SubSeq(its, 1, from) \o SubSeq(its, from + cnt + 1, len)

\* a slip: splice(index + 1, 1)
model_deleteItem_OffByOne(its, index) ==
    [items |-> Splice(its, JSNum(ToIntegerOrInfinity(index) + 1), 1),
     fault |-> FALSE]

model_deleteItem(its, index) ==
    [items |-> Splice(its, index, 1), fault |-> FALSE]

model_deleteAllItems(its) ==
    [items |-> Splice(its, JSNum(0), Len(its)), fault |-> FALSE]

\* a slip: the item is marked done instead of flipped
model_toggleItem_SetDone(its, index) ==
    IF HasElement(its, index)
    THEN [items |-> [its EXCEPT ![ElementPos(index)].done = TRUE],
          fault |-> FALSE]
    ELSE [items |-> its, fault |-> TRUE]

model_toggleItem(its, index) ==
    IF HasElement(its, index)
    THEN [items |-> [its EXCEPT ![ElementPos(index)].done = ~@],
          fault |-> FALSE]
    ELSE [items |-> its, fault |-> TRUE]

RECURSIVE ToggleEach(_, _)
\* model.items.forEach((item, index) => {this.toggleItem(index)})
ToggleEach(its, k) ==
    IF k > Len(its) THEN its
    ELSE ToggleEach(model_toggleItem(its, JSNum(k - 1)).items, k + 1)

RECURSIVE ForceDone(_, _)
\* model.items.forEach(item => { if (!item.done) item.done = true })
ForceDone(its, k) ==
    IF k > Len(its) THEN its
    ELSE ForceDone(IF ~its[k].done THEN [its EXCEPT ![k].done = TRUE]
                   ELSE its, k + 1)

\* a slip: every item is flipped, whatever the list
model_toggleAllItems_FlipEach(its) ==
    [items |-> ToggleEach(its, 1), fault |-> FALSE]

model_toggleAllItems(its) ==
    LET c == model_countItems(its)
    IN IF c.numItems = c.numDoneItems \/ c.numDoneItems = 0
       THEN [items |-> ToggleEach(its, 1), fault |-> FALSE]
       ELSE [items |-> ForceDone(its, 1), fault |-> FALSE]

(***************************************************************************)
(* view                                                                    *)
(***************************************************************************)
\* a token that begins with an ASCII letter
IsAsciiAlpha(c) == c \notin {"<", ">", "-"} /\ ~IsDigit(c)

RECURSIVE HtmlData(_), HtmlTag(_)
\* The text a label shows after label.innerHTML = s: the HTML tokenizer's
\* data state.  "<" followed by a letter opens a tag, any other token is text.
HtmlData(s) ==
    IF s = <<>> THEN <<>>
    ELSE IF Head(s) = "<" /\ Len(s) >= 2 /\ IsAsciiAlpha(s[2])
         THEN HtmlTag(Tail(Tail(s)))
    ELSE <<Head(s)>> \o HtmlData(Tail(s))

\* The tokenizer inside a tag: tokens are dropped up to the closing ">";
\* a tag the input ends in is dropped whole.
HtmlTag(s) ==
    IF s = <<>> THEN <<>>
    ELSE IF Head(s) = ">" THEN HtmlData(Tail(s))
    ELSE HtmlTag(Tail(s))

\* itemLabel.innerHTML = name, read back as the text on the page
InnerHTMLText(name) == HtmlData(name)

\* a slip: the update input is built without the class "hide"
ListElement_InputShown(its, i) ==
    [ id           |-> NumberToString(i),
      checked      |-> IF its[i + 1].done THEN TRUE ELSE FALSE,
      inputValue   |-> its[i + 1].name,
      inputHidden  |-> FALSE,
      labelText    |-> InnerHTMLText(its[i + 1].name),
      labelStrike  |-> IF its[i + 1].done THEN TRUE ELSE FALSE,
      labelHidden  |-> FALSE,
      deleteIndex  |-> i ]

\* the <li> that displayTodoItems builds for items[i]
ListElement(its, i) ==
    [ id           |-> NumberToString(i),
      checked      |-> IF its[i + 1].done THEN TRUE ELSE FALSE,
      inputValue   |-> its[i + 1].name,
      inputHidden  |-> TRUE,
      labelText    |-> InnerHTMLText(its[i + 1].name),
      labelStrike  |-> IF its[i + 1].done THEN TRUE ELSE FALSE,
      labelHidden  |-> FALSE,
      deleteIndex  |-> i ]

\* parent.insertBefore(node, ref); ref = 0 stands for no reference child
\* (childNodes[0] of an empty list), where the node goes last
InsertBefore(children, node, ref) ==
    IF ref = 0 THEN Append(children, node)
    ELSE SubSeq(children, 1, ref - 1) \o <<node>>
         \o SubSeq(children, ref, Len(children))

\* a slip: no reference child is given, each node goes last
FirstChild_None(children) == 0

\* the position of childNodes[0], 0 if there is none
FirstChild(children) == IF Len(children) > 0 THEN 1 ELSE 0

RECURSIVE RenderLoop(_, _, _)
\* for (let i = 0; i < model.items.length; i++) { ... }
RenderLoop(its, i, children) ==
    IF i < Len(its)
    THEN RenderLoop(its, i + 1,
                    InsertBefore(children, ListElement(its, i),
                                 FirstChild(children)))
    ELSE children

\* classList.remove("hide") / classList.add("hide") on a hidden-flag
displayDOMElement(hidden) == FALSE

hideDOMElement(hidden) == TRUE

\* a slip: the button is shown whatever the list
ToggleAllButton_Shown(its, hidden) == displayDOMElement(hidden)

\* the toggle-all button after displayTodoItems
ToggleAllButton(its, hidden) ==
    IF Len(its) > 0 THEN displayDOMElement(hidden)
    ELSE IF Len(its) = 0 THEN hideDOMElement(hidden)
    ELSE hidden

NoFocus == <<>>

\* view.displayTodoItems(): the <ul> is emptied and rebuilt, so an update
\* input that had focus is gone
view_displayTodoItems(its) ==
    /\ toggleAllHidden' = ToggleAllButton(its, toggleAllHidden)
    /\ ul' = RenderLoop(its, 0, <<>>)
    /\ focused' = NoFocus

\* a slip: the two branches swapped
view_displayCreateItemButton_Swapped(value, hidden) ==
    IF Len(value) > 0 THEN hideDOMElement(hidden)
    ELSE displayDOMElement(hidden)

\* view.displayCreateItemButton(), given the input's value
view_displayCreateItemButton(value, hidden) ==
    IF Len(value) > 0 THEN displayDOMElement(hidden)
    ELSE hideDOMElement(hidden)

(***************************************************************************)
(* The record of the operation that ran last                               *)
(***************************************************************************)
Op(op, call, index, name, fault) ==
    [op |-> op, call |-> call, index |-> index, name |-> name,
     fault |-> fault, confirmed |-> FALSE, result |-> Undefined,
     code |-> Undefined]

NoOp == Op("load", "none", Undefined, Undefined, FALSE)

(***************************************************************************)
(* controller                                                              *)
(***************************************************************************)
\* controller.changeItemName(index, name); a fault in the model ends the
\* handler before the view is refreshed
controller_changeItemName(index, name) ==
    LET r == model_changeItemName(items, index, name)
    IN /\ items' = r.items
       /\ IF r.fault THEN UNCHANGED <<ul, toggleAllHidden, focused>>
          ELSE view_displayTodoItems(r.items)

\* a slip: the view is not refreshed after the deletion
controller_deleteItem_NoRefresh(index) ==
    /\ items' = model_deleteItem(items, index).items
    /\ UNCHANGED <<ul, toggleAllHidden, focused>>

\* controller.deleteItem(index)
controller_deleteItem(index) ==
    LET r == model_deleteItem(items, index)
    IN /\ items' = r.items
       /\ IF r.fault THEN UNCHANGED <<ul, toggleAllHidden, focused>>
          ELSE view_displayTodoItems(r.items)

\* a slip: an empty input is refused
CreateItem_RejectsEmpty ==
    /\ before' = items
    /\ Len(items) < MaxItems
    /\ IF createInput = <<>>
       THEN UNCHANGED <<items, createInput, ul, toggleAllHidden, focused>>
       ELSE /\ items' = model_createItem(items, createInput).items
            /\ createInput' = <<>>
            /\ view_displayTodoItems(items')
    /\ lastOp' = Op("createItem", "createItem", Undefined,
                    JSStr(createInput), FALSE)
    /\ UNCHANGED createButtonHidden

\* the form button: controller.createItem()
CreateItem ==
    /\ before' = items
    /\ Len(items) < MaxItems
    /\ LET r == model_createItem(items, createInput)
       IN /\ items' = r.items
          /\ createInput' = <<>>
          /\ view_displayTodoItems(r.items)
          /\ lastOp' = Op("createItem", "createItem", Undefined,
                          JSStr(createInput), r.fault)
    /\ UNCHANGED createButtonHidden

\* what event.code holds: the string the browser gives for the key, or a
\* number when a caller builds the event itself
EventCodes == { JSStr(<<"Enter">>), JSStr(<<"Escape">>), JSStr(<<"KeyA">>),
                JSNum(ENTER_KEY), JSNum(ESC_KEY) }

\* keyup in the update input of the p-th <li>:
\* controller.updateItemNameOnKeyUp(event)
UpdateItemNameOnKeyUp(p, code) ==
    /\ before' = items
    /\ focused = ul[p].id
    /\ LET id == JSStr(ul[p].id)
           newName == ul[p].inputValue
       IN IF StrictEquals(code, JSNum(ENTER_KEY)) /\ newName # <<>>
          THEN /\ controller_changeItemName(id, newName)
               /\ lastOp' = [Op("updateItemNameOnKeyUp", "changeItemName", id,
                                JSStr(newName),
                                model_changeItemName(items, id, newName).fault)
                             EXCEPT !.code = code]
          ELSE IF StrictEquals(code, JSNum(ESC_KEY))
          THEN /\ items' = items
               /\ IF HasElement(items, id)
                  THEN view_displayTodoItems(items)
                  ELSE UNCHANGED <<ul, toggleAllHidden, focused>>
               /\ lastOp' = [Op("updateItemNameOnKeyUp", "none", id,
                                Undefined, ~HasElement(items, id))
                             EXCEPT !.code = code]
          ELSE /\ UNCHANGED <<items, ul, toggleAllHidden, focused>>
               /\ lastOp' = [Op("updateItemNameOnKeyUp", "none", Undefined,
                                Undefined, FALSE)
                             EXCEPT !.code = code]
    /\ UNCHANGED <<createInput, createButtonHidden>>

\* a slip: an empty text is committed as the name
UpdateItemNameOnFocusOut_KeepEmpty(p) ==
    /\ before' = items
    /\ focused = ul[p].id
    /\ LET id == JSStr(ul[p].id)
           newName == ul[p].inputValue
       IN /\ controller_changeItemName(id, newName)
          /\ lastOp' = Op("updateItemNameOnFocusOut", "changeItemName",
                          id, JSStr(newName),
                          model_changeItemName(items, id, newName).fault)
    /\ UNCHANGED <<createInput, createButtonHidden>>

\* focus leaves the update input of the p-th <li>:
\* controller.updateItemNameOnFocusOut(event)
UpdateItemNameOnFocusOut(p) ==
    /\ before' = items
    /\ focused = ul[p].id
    /\ LET id == JSStr(ul[p].id)
           newName == ul[p].inputValue
       IN IF newName # <<>>
          THEN /\ controller_changeItemName(id, newName)
               /\ lastOp' = Op("updateItemNameOnFocusOut", "changeItemName",
                               id, JSStr(newName),
                               model_changeItemName(items, id, newName).fault)
          ELSE /\ controller_deleteItem(id)
               /\ lastOp' = Op("updateItemNameOnFocusOut", "deleteItem",
                               id, Undefined,
                               model_deleteItem(items, id).fault)
    /\ UNCHANGED <<createInput, createButtonHidden>>

\* click on the x button of the p-th <li>: controller.deleteItem(i), with the
\* i of the loop round that built the button
DeleteItem(p) ==
    /\ before' = items
    /\ LET index == JSNum(ul[p].deleteIndex)
       IN /\ controller_deleteItem(index)
          /\ lastOp' = Op("deleteItem", "deleteItem", index, Undefined,
                          model_deleteItem(items, index).fault)
    /\ UNCHANGED <<createInput, createButtonHidden>>

\* a slip: the answer given to confirm() is not looked at
DeleteAllItems_Unconfirmed(deleteConfirmed) ==
    /\ before' = items
    /\ items' = model_deleteAllItems(items).items
    /\ view_displayTodoItems(items')
    /\ lastOp' = [Op("deleteAllItems", "deleteAllItems", Undefined, Undefined,
                     FALSE)
                  EXCEPT !.confirmed = deleteConfirmed]
    /\ UNCHANGED <<createInput, createButtonHidden>>

\* the DELETE ALL button: controller.deleteAllItems(), with the answer given
\* to confirm()
DeleteAllItems(deleteConfirmed) ==
    /\ before' = items
    /\ IF deleteConfirmed
       THEN LET r == model_deleteAllItems(items)
            IN /\ items' = r.items
               /\ view_displayTodoItems(r.items)
       ELSE UNCHANGED <<items, ul, toggleAllHidden, focused>>
    /\ lastOp' = [Op("deleteAllItems",
                     IF deleteConfirmed THEN "deleteAllItems" ELSE "none",
                     Undefined, Undefined, FALSE)
                  EXCEPT !.confirmed = deleteConfirmed]
    /\ UNCHANGED <<createInput, createButtonHidden>>

\* a slip: the click on the label also toggles the item
TurnOnUpdatingMode_Toggles(p) ==
    /\ before' = items
    /\ focused = NoFocus
    /\ items' = model_toggleItem(items, JSStr(ul[p].id)).items
    /\ ul' = [ul EXCEPT ![p].labelHidden = hideDOMElement(@),
                        ![p].inputHidden = displayDOMElement(@)]
    /\ focused' = ul[p].id
    /\ lastOp' = Op("turnOnUpdatingMode", "none", Undefined, Undefined, FALSE)
    /\ UNCHANGED <<toggleAllHidden, createInput, createButtonHidden>>

\* click on the label of the p-th <li>: controller.turnOnUpdatingMode(event).
\* A click reaches a label only while no update input has focus: an input
\* that loses focus runs updateItemNameOnFocusOut first.
TurnOnUpdatingMode(p) ==
    /\ before' = items
    /\ focused = NoFocus
    /\ ul' = [ul EXCEPT ![p].labelHidden = hideDOMElement(@),
                        ![p].inputHidden = displayDOMElement(@)]
    /\ focused' = ul[p].id
    /\ lastOp' = Op("turnOnUpdatingMode", "none", Undefined, Undefined, FALSE)
    /\ UNCHANGED <<items, toggleAllHidden, createInput, createButtonHidden>>

\* change on the checkbox of the p-th <li>: controller.toggleItem(event)
ToggleItem(p) ==
    /\ before' = items
    /\ LET id == JSStr(ul[p].id)
           r == model_toggleItem(items, id)
       IN /\ items' = r.items
          /\ IF r.fault THEN UNCHANGED <<ul, toggleAllHidden, focused>>
             ELSE view_displayTodoItems(r.items)
          /\ lastOp' = Op("toggleItem", "toggleItem", id, Undefined, r.fault)
    /\ UNCHANGED <<createInput, createButtonHidden>>

\* the toggle-all button: controller.toggleAllItems()
ToggleAllItems ==
    /\ before' = items
    /\ LET r == model_toggleAllItems(items)
       IN /\ items' = r.items
          /\ view_displayTodoItems(r.items)
          /\ lastOp' = Op("toggleAllItems", "toggleAllItems", Undefined,
                          Undefined, r.fault)
    /\ UNCHANGED <<createInput, createButtonHidden>>

\* the value form.reset() gives #create-item-input
DefaultCreateInputValue == <<>>

\* controller.clearForm().  The form, like the label of an item, is reached
\* only while no update input has focus.
ClearForm ==
    /\ before' = items
    /\ createInput' = DefaultCreateInputValue
    /\ createButtonHidden' =
           view_displayCreateItemButton(DefaultCreateInputValue,
                                        createButtonHidden)
    /\ lastOp' = Op("clearForm", "none", Undefined, Undefined, FALSE)
    /\ UNCHANGED <<items, ul, toggleAllHidden, focused>>

\* view.displayCreateItemButton(), called from the page
DisplayCreateItemButton ==
    /\ before' = items
    /\ createButtonHidden' =
           view_displayCreateItemButton(createInput, createButtonHidden)
    /\ lastOp' = Op("displayCreateItemButton", "none", Undefined, Undefined,
                    FALSE)
    /\ UNCHANGED <<items, ul, toggleAllHidden, createInput, focused>>

\* the user edits the text of #create-item-input
TypeCreateInput(text) ==
    /\ before' = items
    /\ text # createInput
    /\ createInput' = text
    /\ lastOp' = Op("typeCreateInput", "none", Undefined, JSStr(text), FALSE)
    /\ UNCHANGED <<items, ul, toggleAllHidden, createButtonHidden, focused>>

\* the user edits the text of the update input that has focus
TypeUpdateInput(p, text) ==
    /\ before' = items
    /\ focused = ul[p].id
    /\ ~ul[p].inputHidden
    /\ text # ul[p].inputValue
    /\ ul' = [ul EXCEPT ![p].inputValue = text]
    /\ lastOp' = Op("typeUpdateInput", "none", Undefined, JSStr(text), FALSE)
    /\ UNCHANGED <<items, toggleAllHidden, createInput, createButtonHidden,
                   focused>>

(***************************************************************************)
(* The page: the state after the script has run, and the events            *)
(***************************************************************************)
Init ==
    /\ items = SeedItems
    /\ ul = RenderLoop(SeedItems, 0, <<>>)
    /\ toggleAllHidden = ToggleAllButton(SeedItems, FALSE)
    /\ createInput = <<>>
    /\ createButtonHidden \in BOOLEAN
    /\ focused = NoFocus
    /\ lastOp = NoOp
    /\ before = SeedItems

Next ==
    \/ CreateItem
    \/ \E p \in 1..Len(ul), code \in EventCodes : UpdateItemNameOnKeyUp(p, code)
    \/ \E p \in 1..Len(ul) : UpdateItemNameOnFocusOut(p)
    \/ \E p \in 1..Len(ul) : DeleteItem(p)
    \/ \E deleteConfirmed \in BOOLEAN : DeleteAllItems(deleteConfirmed)
    \/ \E p \in 1..Len(ul) : TurnOnUpdatingMode(p)
    \/ \E p \in 1..Len(ul) : ToggleItem(p)
    \/ ToggleAllItems
    \/ ClearForm
    \/ DisplayCreateItemButton
    \/ \E text \in TypedNames : TypeCreateInput(text)
    \/ \E p \in 1..Len(ul), text \in TypedNames : TypeUpdateInput(p, text)

Spec == Init /\ [][Next]_vars

(***************************************************************************)
(* The model object on its own: its operations called directly, on any     *)
(* list and with any index                                                 *)
(***************************************************************************)
\* the index arguments: numbers inside and outside the list, and the
\* strings the controller reads from an element's id
IndexArgs ==
    {JSNum(n) : n \in (0 - (MaxItems + 1))..(MaxItems + 1)}
        \cup {JSStr(NumberToString(n)) : n \in 0..MaxItems}

ModelInit ==
    /\ items \in BoundedLists
    /\ ul = <<>>
    /\ toggleAllHidden = TRUE
    /\ createInput = <<>>
    /\ createButtonHidden = TRUE
    /\ focused = NoFocus
    /\ lastOp = NoOp
    /\ before = items

ModelCountItems ==
    /\ before' = items
    /\ items' = items
    /\ lastOp' = [Op("model.countItems", "countItems", Undefined, Undefined,
                     FALSE)
                  EXCEPT !.result = model_countItems(items)]
    /\ UNCHANGED dom

ModelCreateItem(name) ==
    /\ Len(items) < MaxItems
    /\ before' = items
    /\ LET r == model_createItem(items, name)
       IN /\ items' = r.items
          /\ lastOp' = Op("model.createItem", "createItem", Undefined,
                          JSStr(name), r.fault)
    /\ UNCHANGED dom

ModelChangeItemName(index, name) ==
    /\ before' = items
    /\ LET r == model_changeItemName(items, index, name)
       IN /\ items' = r.items
          /\ lastOp' = Op("model.changeItemName", "changeItemName", index,
                          JSStr(name), r.fault)
    /\ UNCHANGED dom

ModelDeleteItem(index) ==
    /\ before' = items
    /\ LET r == model_deleteItem(items, index)
       IN /\ items' = r.items
          /\ lastOp' = Op("model.deleteItem", "deleteItem", index, Undefined,
                          r.fault)
    /\ UNCHANGED dom

ModelDeleteAllItems ==
    /\ before' = items
    /\ LET r == model_deleteAllItems(items)
       IN /\ items' = r.items
          /\ lastOp' = Op("model.deleteAllItems", "deleteAllItems", Undefined,
                          Undefined, r.fault)
    /\ UNCHANGED dom

ModelToggleItem(index) ==
    /\ before' = items
    /\ LET r == model_toggleItem(items, index)
       IN /\ items' = r.items
          /\ lastOp' = Op("model.toggleItem", "toggleItem", index, Undefined,
                          r.fault)
    /\ UNCHANGED dom

ModelToggleAllItems ==
    /\ before' = items
    /\ LET r == model_toggleAllItems(items)
       IN /\ items' = r.items
          /\ lastOp' = Op("model.toggleAllItems", "toggleAllItems", Undefined,
                          Undefined, r.fault)
    /\ UNCHANGED dom

ModelNext ==
    \/ ModelCountItems
    \/ \E name \in TypedNames : ModelCreateItem(name)
    \/ \E index \in IndexArgs, name \in TypedNames :
           ModelChangeItemName(index, name)
    \/ \E index \in IndexArgs : ModelDeleteItem(index)
    \/ ModelDeleteAllItems
    \/ \E index \in IndexArgs : ModelToggleItem(index)
    \/ ModelToggleAllItems

ModelSpec == ModelInit /\ [][ModelNext]_vars

(***************************************************************************)
(* Properties                                                              *)
(***************************************************************************)
\* the integer an index argument stands for
IndexOf(x) == IF x.t = "number" THEN x.v ELSE DigitsToNat(x.v, 0)

InBounds(x, its) == 0 <= IndexOf(x) /\ IndexOf(x) < Len(its)

NumDone(its) == Cardinality({k \in 1..Len(its) : its[k].done})

SameNames(a, b) ==
    Len(a) = Len(b) /\ \A k \in 1..Len(a) : a[k].name = b[k].name

C3_DeleteItemShifts ==
    (lastOp.op = "model.deleteItem" /\ InBounds(lastOp.index, before)) =>
        LET i == IndexOf(lastOp.index)
        IN /\ ~lastOp.fault
           /\ Len(items) = Len(before) - 1
           /\ \A j \in 0..(i - 1) : items[j + 1] = before[j + 1]
           /\ \A j \in (i + 1)..(Len(before) - 1) : items[j] = before[j + 1]

\* the first of two different items has been deleted
C3_Witness ==
    /\ lastOp.op = "model.deleteItem"
    /\ lastOp.index = JSNum(0)
    /\ Len(before) = 2 /\ before[1] # before[2]
    /\ items = <<before[2]>>

\* C4: model.createItem(name), for any name and the empty one too, makes the
\* list one longer, with {name, done: false} last and the earlier items as
\* they were.
C4_CreateItemAppends ==
    lastOp.op = "model.createItem" =>
        /\ ~lastOp.fault
        /\ Len(items) = Len(before) + 1
        /\ items[Len(items)] = [name |-> lastOp.name.v, done |-> FALSE]
        /\ \A k \in 1..Len(before) : items[k] = before[k]
        /\ NumDone(items) = NumDone(before)

\* an item with the empty name has been added to a list with a done item
C4_Witness ==
    /\ lastOp.op = "model.createItem"
    /\ lastOp.name = JSStr(<<>>)
    /\ Len(before) = 1 /\ before[1].done
    /\ Len(items) = 2 /\ items[2].name = <<>>

\* C5: model.toggleItem(i), 0 <= i < length, flips the done flag of item i
\* and changes nothing else; a second toggleItem(i) gives the first list back.
C5_ToggleItemInvolution ==
    (lastOp.op = "model.toggleItem" /\ InBounds(lastOp.index, before)) =>
        LET i == IndexOf(lastOp.index)
        IN /\ ~lastOp.fault
           /\ SameNames(items, before)
           /\ items[i + 1].done = ~before[i + 1].done
           /\ \A k \in 1..Len(before) : k # i + 1 => items[k] = before[k]
           /\ model_toggleItem(items, lastOp.index).items = before
           /\ ~model_toggleItem(items, lastOp.index).fault

\* a done item next to another item has been toggled
C5_Witness ==
    /\ lastOp.op = "model.toggleItem"
    /\ lastOp.index = JSNum(1)
    /\ Len(before) = 2 /\ before[2].done
    /\ ~items[2].done

\* C6: model.countItems() gives the length of the list and the number of
\* done items, in every state of the list, and leaves the list as it was.
C6_CountItems ==
    /\ model_countItems(items).numItems = Len(items)
    /\ model_countItems(items).numDoneItems = NumDone(items)
    /\ lastOp.op = "model.countItems" =>
           /\ items = before
           /\ lastOp.result =
                  [numItems |-> Len(before), numDoneItems |-> NumDone(before)]

\* countItems has run on a list whose first item is done, its second not
C6_Witness ==
    /\ lastOp.op = "model.countItems"
    /\ Len(items) = 2 /\ items[1].done /\ ~items[2].done
    /\ lastOp.result = [numItems |-> 2, numDoneItems |-> 1]

\* the handlers of the controller that change the model or refresh the view
ControllerHandlers ==
    {"createItem", "deleteItem", "deleteAllItems", "toggleItem",
     "toggleAllItems", "updateItemNameOnKeyUp", "updateItemNameOnFocusOut"}

\* the number an element's id spells
IdNumber(e) == DigitsToNat(e.id, 0)

\* C1: when a controller handler has returned, the rendered list agrees with
\* the model: as many elements as items, one element for each index i, and
\* the element with id i shows the name of items[i] and is checked and
\* struck through exactly if items[i] is done.
C1_RenderedListAgrees ==
    lastOp.op \in ControllerHandlers =>
        /\ Len(ul) = Len(items)
        /\ \A i \in 0..(Len(items) - 1) :
               Cardinality({p \in 1..Len(ul) : ul[p].id = NumberToString(i)})
                   = 1
        /\ \A p \in 1..Len(ul) :
               \E i \in 0..(Len(items) - 1) :
                   /\ ul[p].id = NumberToString(i)
                   /\ ul[p].labelText = items[i + 1].name
                   /\ ul[p].checked = items[i + 1].done
                   /\ ul[p].labelStrike = items[i + 1].done

\* C7: in controller.deleteAllItems(), a confirmed deletion empties the list
\* and refreshes the view; a declined one changes neither the list nor what
\* is rendered.
C7_DeleteAllGated ==
    [][lastOp'.op = "deleteAllItems" =>
          IF lastOp'.confirmed
          THEN items' = <<>> /\ ul' = <<>> /\ toggleAllHidden'
          ELSE items' = items /\ ul' = ul /\ toggleAllHidden' = toggleAllHidden
      ]_vars

\* a list of two items has been deleted after confirmation
C7_Witness ==
    /\ lastOp.op = "deleteAllItems"
    /\ lastOp.confirmed
    /\ Len(before) = 2
    /\ items = <<>> /\ ul = <<>>

IndexTakingOps ==
    {"model.changeItemName", "model.deleteItem", "model.toggleItem"}

\* C8: changeItemName, deleteItem and toggleItem fail with a runtime fault
\* when the index is negative or not below the length of the list.
C8_OutOfBoundsFaults ==
    (lastOp.op \in IndexTakingOps /\ ~InBounds(lastOp.index, before))
        => lastOp.fault

\* items without the element at 0-based position i
Without(its, i) == SubSeq(its, 1, i) \o SubSeq(its, i + 2, Len(its))

\* C8, amended: with an index outside the list, changeItemName and toggleItem
\* fail with a runtime fault and leave the list as it was; deleteItem
\* completes normally: it removes nothing when the index is not below the
\* length, and for a negative index it removes the item at position
\* max(length + index, 0) of a list that is not empty.
C8_OutOfBoundsAmended ==
    (lastOp.op \in IndexTakingOps /\ ~InBounds(lastOp.index, before)) =>
        LET i == IndexOf(lastOp.index)
            n == Len(before)
        IN IF lastOp.op = "model.deleteItem"
           THEN /\ ~lastOp.fault
                /\ i >= n => items = before
                /\ i < 0 => items = Without(before,
                                            IF n + i > 0 THEN n + i ELSE 0)
           ELSE lastOp.fault /\ items = before

\* deleteItem(-1) has removed the last of two items without a fault
C8_Witness ==
    /\ lastOp.op = "model.deleteItem"
    /\ lastOp.index = JSNum(0 - 1)
    /\ ~lastOp.fault
    /\ Len(before) = 2
    /\ items = <<before[1]>>

\* C9: the rendered elements are in array order: the element of items[i]
\* comes before the element of items[j] for i < j.
C9_ArrayOrder ==
    \A p, q \in 1..Len(ul) : IdNumber(ul[p]) < IdNumber(ul[q]) => p < q

\* C9, amended: the rendered elements are in reverse array order: every item
\* has its element, and the element of items[i] comes after the element of
\* items[j] for i < j.
C9_ReverseOrder ==
    /\ \A i \in 0..(Len(items) - 1) :
           \E p \in 1..Len(ul) : ul[p].id = NumberToString(i)
    /\ \A p, q \in 1..Len(ul) : IdNumber(ul[p]) < IdNumber(ul[q]) => p > q

\* a handler has rendered two items: the element of items[1] is first
C9_Witness ==
    /\ lastOp.op = "toggleItem"
    /\ Len(items) = 2
    /\ Len(ul) = 2
    /\ ul[1].id = <<"1">> /\ ul[1].inputValue = items[2].name
    /\ ul[2].id = <<"0">> /\ ul[2].inputValue = items[1].name

\* C10: at any moment, the index a handler would take from a rendered element
\* (its id, or the index its delete button holds) is inside the list and is
\* the index of the item the element was rendered from; and no model
\* operation called by a handler has faulted or been given an index outside
\* the list.
C10_IndicesCurrent ==
    /\ ~lastOp.fault
    /\ lastOp.call \in {"changeItemName", "deleteItem", "toggleItem"}
           => InBounds(lastOp.index, before)
    /\ \A p \in 1..Len(ul) :
           \A x \in {JSStr(ul[p].id), JSNum(ul[p].deleteIndex)} :
               /\ InBounds(x, items)
               /\ LET e == ListElement(items, IndexOf(x))
                  IN /\ ul[p].id = e.id
                     /\ ul[p].deleteIndex = e.deleteIndex
                     /\ ul[p].checked = e.checked
                     /\ ul[p].labelText = e.labelText
                     /\ ul[p].labelStrike = e.labelStrike

\* after the first seed item was deleted, the second, now items[0], has been
\* toggled through the id "0" of its new element
C10_Witness ==
    /\ lastOp.op = "toggleItem"
    /\ lastOp.index = JSStr(<<"0">>)
    /\ ~lastOp.fault
    /\ Len(before) = 1
    /\ before[1] = SeedItems[2]
    /\ items[1].done

\* the position in the <ul> of the <li> whose update input has focus
FocusedPos == CHOOSE p \in 1..Len(ul) : ul[p].id = focused

\* the list u of rendered elements is a fresh rendering of the list its
Refreshed(u, its) ==
    /\ Len(u) = Len(its)
    /\ \A i \in 0..(Len(its) - 1) : \E p \in 1..Len(u) : IdNumber(u[p]) = i
    /\ \A p \in 1..Len(u) :
           LET i == IdNumber(u[p])
           IN /\ i < Len(its)
              /\ u[p].inputValue = its[i + 1].name
              /\ u[p].checked = its[i + 1].done
              /\ u[p].labelStrike = its[i + 1].done
              /\ u[p].inputHidden
              /\ ~u[p].labelHidden

\* C11: when focus leaves the update input of item i,
\* updateItemNameOnFocusOut gives item i the text of the input as its name if
\* the text is not empty (the length stays), and deletes item i if it is
\* empty (the length goes down by one); either way the view is refreshed.
C11_FocusOutCommitsOrDeletes ==
    [][lastOp'.op = "updateItemNameOnFocusOut" =>
          LET i == IdNumber(ul[FocusedPos])
              text == ul[FocusedPos].inputValue
          IN /\ IF text # <<>>
                THEN /\ items' = [items EXCEPT ![i + 1].name = text]
                     /\ Len(items') = Len(items)
                ELSE /\ items' = Without(items, i)
                     /\ Len(items') = Len(items) - 1
             /\ Refreshed(ul', items')
      ]_vars

\* focus has left an emptied update input and the item is gone
C11_Witness ==
    /\ lastOp.op = "updateItemNameOnFocusOut"
    /\ lastOp.call = "deleteItem"
    /\ Len(before) = 2
    /\ Len(items) = 1
    /\ Len(ul) = 1

\* the keys, as event.code names them and as key codes
IsEnterKey(code) == code \in {JSStr(<<"Enter">>), JSNum(13)}

IsEscKey(code) == code \in {JSStr(<<"Escape">>), JSNum(27)}

\* C12: on a keyup in the update input of item i, updateItemNameOnKeyUp
\* gives item i the text as its name if the key is ENTER and the text is not
\* empty; for ESC it leaves the model as it is and refreshes the view, the
\* input holding the name of item i again; for ENTER with an empty text and
\* for any other key neither the model nor the view changes.
C12_KeyUpEnterEsc ==
    [][lastOp'.op = "updateItemNameOnKeyUp" =>
          LET i == IdNumber(ul[FocusedPos])
              text == ul[FocusedPos].inputValue
          IN IF IsEnterKey(lastOp'.code) /\ text # <<>>
             THEN /\ items' = [items EXCEPT ![i + 1].name = text]
                  /\ Refreshed(ul', items')
             ELSE IF IsEscKey(lastOp'.code)
             THEN /\ items' = items
                  /\ Refreshed(ul', items')
             ELSE /\ items' = items
                  /\ ul' = ul
      ]_vars

\* C13: the view does not change the model: after displayTodoItems alone
\* (the first rendering, or the ESC branch of updateItemNameOnKeyUp), after
\* displayCreateItemButton (with displayDOMElement and hideDOMElement) and
\* after turnOnUpdatingMode, model.items is what it was.
C13_ViewLeavesModel ==
    (\/ lastOp.op \in {"load", "turnOnUpdatingMode", "displayCreateItemButton",
                       "clearForm"}
     \/ lastOp.op = "updateItemNameOnKeyUp" /\ lastOp.call = "none")
        => items = before

\* a label has been clicked: its input is shown, the list is as it was
C13_Witness ==
    /\ lastOp.op = "turnOnUpdatingMode"
    /\ \E p \in 1..Len(ul) : ~ul[p].inputHidden /\ ul[p].labelHidden
    /\ items = before
    /\ Len(items) = 2

\* C14: from the first rendering on, the toggle-all button is visible
\* exactly if model.items is not empty.
C14_ToggleAllVisibleIffItems ==
    (~toggleAllHidden) <=> (Len(items) > 0)

\* the button was hidden for the empty list and is shown again for an item
\* created in it
C14_Witness ==
    /\ lastOp.op = "createItem"
    /\ before = <<>>
    /\ Len(items) = 1
    /\ ~toggleAllHidden

\* C15: before any operation the list holds the two seed items in order, the
\* first done and the second not, and countItems() gives {2, 1}.
C15_SeedList ==
    lastOp.op = "load" =>
        /\ Len(items) = 2
        /\ items[1] = [name |-> <<"This item is done">>, done |-> TRUE]
        /\ items[2] = [name |-> <<"This item is not done">>, done |-> FALSE]
        /\ model_countItems(items) = [numItems |-> 2, numDoneItems |-> 1]

\* the page has loaded and rendered its two items
C15_Witness ==
    /\ lastOp.op = "load"
    /\ Len(items) = 2
    /\ Len(ul) = 2
    /\ NumDone(items) = 1

\* C16: model.changeItemName(i, name), 0 <= i < length, gives item i the
\* name and changes nothing else: its done flag, the other items, the length
\* and the order stay.
C16_ChangeItemNameInPlace ==
    (lastOp.op = "model.changeItemName" /\ InBounds(lastOp.index, before)) =>
        LET i == IndexOf(lastOp.index)
        IN /\ ~lastOp.fault
           /\ Len(items) = Len(before)
           /\ items[i + 1].name = lastOp.name.v
           /\ items[i + 1].done = before[i + 1].done
           /\ \A k \in 1..Len(before) : k # i + 1 => items[k] = before[k]

\* the second of two items, a done one, has been given another name
C16_Witness ==
    /\ lastOp.op = "model.changeItemName"
    /\ lastOp.index = JSNum(1)
    /\ Len(before) = 2
    /\ before[2].done
    /\ before[2].name # items[2].name
    /\ items[2].name = <<"<", "b", ">">>

\* C17: toggleAllItems() flips every item: each item that was done is
\* undone afterwards and each item that was not done is done.
C17_ToggleAllFlipsEach ==
    lastOp.op = "model.toggleAllItems" =>
        /\ Len(items) = Len(before)
        /\ \A k \in 1..Len(before) : items[k].done = ~before[k].done

\* C18: controller.createItem() takes any text of the new-item input, the
\* empty one too: it appends {name: text, done: false} to the list, empties
\* the input and refreshes the view.
C18_CreateItemUnguarded ==
    lastOp.op = "createItem" =>
        /\ items = Append(before, [name |-> lastOp.name.v, done |-> FALSE])
        /\ createInput = <<>>
        /\ Refreshed(ul, items)

\* an item with the empty name has been created from the empty input
C18_Witness ==
    /\ lastOp.op = "createItem"
    /\ lastOp.name = JSStr(<<>>)
    /\ Len(items) = Len(before) + 1
    /\ items[Len(items)].name = <<>>
    /\ Len(ul) = Len(items)

\* the last operation has rendered the list
HasRendered ==
    \/ lastOp.op \in {"load", "createItem", "deleteItem", "toggleItem",
                      "toggleAllItems", "updateItemNameOnFocusOut"}
    \/ lastOp.op = "deleteAllItems" /\ lastOp.confirmed
    \/ lastOp.op = "updateItemNameOnKeyUp" /\ lastOp.index # Undefined

\* no element is in edit mode, and each input holds its item's name
NoEditMode ==
    \A p \in 1..Len(ul) :
        /\ ul[p].inputHidden
        /\ ~ul[p].labelHidden
        /\ IdNumber(ul[p]) < Len(items)
        /\ ul[p].inputValue = items[IdNumber(ul[p]) + 1].name

\* C19: after a rendering every update input is hidden, every label shown
\* and every input holds its item's name; so no element is in edit mode once
\* a handler of the controller has changed the model.
C19_RenderResetsEditMode ==
    /\ HasRendered => NoEditMode
    /\ (lastOp.op \in ControllerHandlers /\ items # before) => NoEditMode

\* an element was in edit mode, its input lost focus, the item got the new
\* name and no element is in edit mode
C19_Witness ==
    /\ lastOp.op = "updateItemNameOnFocusOut"
    /\ lastOp.call = "changeItemName"
    /\ items # before
    /\ Len(ul) = 2
    /\ \A p \in 1..Len(ul) : ul[p].inputHidden /\ ~ul[p].labelHidden

\* C20: after displayCreateItemButton() the create button is shown exactly
\* if the new-item input is not empty, whatever the model holds; after
\* clearForm() the input is empty and the button hidden.
C20_CreateButtonFollowsInput ==
    /\ lastOp.op \in {"displayCreateItemButton", "clearForm"}
           => ((~createButtonHidden) <=> (Len(createInput) > 0))
    /\ lastOp.op = "clearForm" => (createInput = <<>> /\ createButtonHidden)

\* the button is shown for a typed input while the list is empty
C20_Witness ==
    /\ lastOp.op = "displayCreateItemButton"
    /\ createInput = <<"<", "b", ">">>
    /\ ~createButtonHidden
    /\ items = <<>>

====
